---- MODULE Spec2Model ----
(***************************************************************************)
(* Session state machine of the AI prompt generator (src/src/App.tsx):     *)
(* prompt generation, the refine thread, the test thread, the history and  *)
(* the asynchronous handlers that stream backend responses into them.      *)
(*                                                                         *)
(* Text is a sequence of tokens; "+" on strings is \o.  An asynchronous    *)
(* handler is a record in gens / refines / tests from its dispatch to the  *)
(* end of its finally block; the record holds the handler's locals and     *)
(* the values its closure captured at dispatch.  One action is one         *)
(* synchronous run of a handler between two awaits.  A user event is        *)
(* handled by the closures of the latest render, which hold the current    *)
(* state; an invocation that is suspended keeps the closures it started    *)
(* with.                                                                   *)
(*                                                                         *)
(* A state updater that throws does so while React renders App; App has    *)
(* no error boundary, so React unmounts it and its state is gone.  The     *)
(* model records this as crashed and takes no further step.                *)
(***************************************************************************)
EXTENDS Integers, Sequences, FiniteSets, TLC

VARIABLES
    ai,                     \* App.ai: TRUE iff a backend client was constructed
    userInput,              \* App.userInput
    tone,                   \* App.tone
    targetAudience,         \* App.targetAudience
    generatedPrompt,        \* App.generatedPrompt
    isLoading,              \* App.isLoading
    error,                  \* App.error
    history,                \* App.history (useLocalStorage storedValue)
    activeTab,              \* App.activeTab
    chatHistory,            \* App.chatHistory (refine thread)
    isChatLoading,          \* App.isChatLoading
    originalPromptForChat,  \* App.originalPromptForChat.current
    testChatHistory,        \* App.testChatHistory (test thread)
    isTestChatLoading,      \* App.isTestChatLoading
    testChatRef,            \* App.testChatRef.current
    gens,                   \* running handleGeneratePrompt invocations
    refines,                \* running handleSendMessage invocations
    tests,                  \* running handleSendTestMessage invocations
    clock,                  \* source of crypto.randomUUID() / Date.now()
    dispatched,             \* handler invocations so far, per handler
    crashed,                \* a state updater threw during render: App is unmounted
    accessLevel,            \* App.accessLevel (useLocalStorage storedValue)
    adminSettings,          \* App.adminSettings (useLocalStorage storedValue)
    code,                   \* AccessGate.code
    gateError,              \* AccessGate.error
    today,                  \* the local date new Date() returns
    chatToSave,             \* App.chatToSave
    isSaveModalOpen,        \* App.isSaveModalOpen
    filename,               \* App.filename
    download,               \* the file handleSaveToFile handed to the browser
    localStorage,           \* window.localStorage: the item under each key
    quotaExceeded           \* the browser refuses writes: setItem throws

sessionVars == <<ai, userInput, tone, targetAudience, generatedPrompt, isLoading, error,
                 history, activeTab, chatHistory, isChatLoading, originalPromptForChat,
                 testChatHistory, isTestChatLoading, testChatRef, gens, refines, tests,
                 clock, dispatched, crashed>>

gateVars == <<accessLevel, adminSettings, code, gateError, today>>

saveVars == <<chatToSave, isSaveModalOpen, filename, download>>

storageVars == <<localStorage, quotaExceeded>>

vars == <<sessionVars, gateVars, saveVars, storageVars>>

formVars == <<userInput, tone, targetAudience>>
genVars == <<generatedPrompt, isLoading, error>>
refineVars == <<chatHistory, isChatLoading, originalPromptForChat>>
testVars == <<testChatHistory, isTestChatLoading, testChatRef>>

----------------------------------------------------------------------------
(* Bounds of the model *)

MaxCalls == 3       \* backend calls (generations and chat turns) in one run
MaxFragments == 2   \* non-empty fragments one stream yields
StoredItems == 1    \* length of the short history found in localStorage
MaxDeletes == 1     \* history items deleted one by one in one run
MaxStoredGenerations == 1   \* generations dispatched in one run of SpecStorage

----------------------------------------------------------------------------
(* Program constants and values *)

HISTORY_KEEP == 49

TONES == <<"Formal", "Casual", "Humorous", "Authoritative", "Friendly", "Empathetic">>

Null == [null |-> TRUE]

NoError == Null

ErrMsg(m) == [message |-> m]

NOT_INITIALIZED == "AI client not initialized. Please configure your API key."

NOT_INITIALIZED_OR_NO_PROMPT == "AI client not initialized or no prompt generated."

UNKNOWN_ERROR == "An unknown error occurred."

\* Values a rejected request or a failing stream throws: an Error with a
\* message, or something that is not an Error.
Thrown == {[isError |-> TRUE, message |-> "boom"], [isError |-> FALSE, message |-> ""]}

\* err instanceof Error ? err.message : 'An unknown error occurred.'
ErrorMessageOf(err) == IF err.isError THEN err.message ELSE UNKNOWN_ERROR

\* Fragments (chunk.text) a stream can yield; the empty one is skipped by
\* "if (chunkText)".
GenFragments == {<<>>, <<"g">>}

\* A backend that words every generation differently: the text of the
\* generation with the given id, and the fragments its stream can yield.
GenText(id) == "g" \o ToString(id)

GenFragmentsOf(g) == {<<>>, <<GenText(g.id)>>}
RefineFragments == {<<>>, <<"r">>}
TestFragments == {<<>>, <<"t">>}

\* Texts a user types into the message field of a chat panel.
Messages == {<<>>, <<" ">>, <<" ", " ">>, <<"m", " ">>}

\* The recommended-prompt cards (title, description).
Cards == {[title |-> "Expert Tutor", description |-> "An AI tutor"]}

FAILED_TO_INITIALIZE == "Failed to initialize AI. Ensure API key is valid."

ADMIN_CODE == <<"admin-unlock-righteye">>

DEFAULT_ADMIN_SETTINGS == [accessSecret |-> <<"CLIENT">>, isGateEnabled |-> TRUE]

INVALID_ACCESS_CODE == "Invalid access code."

\* Local dates (getDate, getMonth, getFullYear) of the days a run spans:
\* 5 March 2026 and 15 December 2026.
Dates == <<[date |-> 5, month |-> 2, fullYear |-> 2026],
           [date |-> 15, month |-> 11, fullYear |-> 2026]>>

\* File names a user types into the save dialog.
Filenames == {<<"notes">>, <<"notes", ".txt">>}

\* Secrets an administrator types into the admin panel.
Secrets == {<<"CLIENT">>, <<"NEW">>}

\* Dates as a visitor types them after a secret: 5 March 2026 padded,
\* unpadded and with the month counted from zero, and 15 December 2026.
TypedDates == {<<"0", "5", "-", "0", "3", "-", "2", "0", "2", "6">>,
               <<"5", "-", "3", "-", "2", "0", "2", "6">>,
               <<"0", "5", "-", "0", "2", "-", "2", "0", "2", "6">>,
               <<"1", "5", "-", "1", "2", "-", "2", "0", "2", "6">>}

\* Texts a visitor types into the access-code field.
Codes == {<<>>, <<"admin-unlock-righteye">>, <<"admin">>}
            \cup {secret \o <<"-">> \o typed : secret \in Secrets, typed \in TypedDates}

----------------------------------------------------------------------------
(* Pure helpers *)

IsWhitespace(c) == c = " "

RECURSIVE TrimStart(_)
TrimStart(s) ==
    IF s # <<>> /\ IsWhitespace(Head(s)) THEN TrimStart(Tail(s)) ELSE s

RECURSIVE TrimEnd(_)
TrimEnd(s) ==
    IF s # <<>> /\ IsWhitespace(s[Len(s)]) THEN TrimEnd(SubSeq(s, 1, Len(s) - 1)) ELSE s

\* String.prototype.trim
Trim(s) == TrimEnd(TrimStart(s))

\* JavaScript truthiness of a string
Truthy(s) == s # <<>>

\* Array.prototype.slice(0, n)
Slice0(s, n) == SubSeq(s, 1, IF Len(s) < n THEN Len(s) ELSE n)

RECURSIVE FilterOutId(_, _)
\* prev.filter(item => item.id !== id)
FilterOutId(s, id) ==
    IF s = <<>> THEN <<>>
    ELSE IF Head(s).id # id THEN <<Head(s)>> \o FilterOutId(Tail(s), id)
    ELSE FilterOutId(Tail(s), id)

HistoryItem(id, prompt, ts, input, t, aud) ==
    [id |-> id, prompt |-> prompt, timestamp |-> ts, userInput |-> input,
     tone |-> t, targetAudience |-> aud]

\* The updater with slice(0, 50): one item too many is kept.
PrependItem_KeepsOneMore(item, prev) == <<item>> \o Slice0(prev, HISTORY_KEEP + 1)

\* The updater handleGeneratePrompt passes to setHistory.
PrependItem(item, prev) == <<item>> \o Slice0(prev, HISTORY_KEEP)

ChatMessage(role, content) == [role |-> role, content |-> content]

\* The updater of the stream loops and of the catch blocks:
\*   newHistory = [...prev]; newHistory[newHistory.length - 1].content = text
\* It throws a TypeError when prev is empty.
UpdaterThrows(prev) == Len(prev) = 0

WriteLast(prev, text) == [prev EXCEPT ![Len(prev)].content = text]

\* `Error: ${errorMsg}`
ErrorMarker(errorMsg) == <<"Error: ">> \o <<errorMsg>>

\* handleRecommendedClick: `${title}. ${description}`
CardInput(card) == <<card.title>> \o <<". ">> \o <<card.description>>

DIGITS == <<"0", "1", "2", "3", "4", "5", "6", "7", "8", "9">>

RECURSIVE StringOf(_)
\* String(n) of a non-negative integer: its decimal digits
StringOf(n) ==
    IF n < 10 THEN <<DIGITS[n + 1]>>
    ELSE StringOf(n \div 10) \o <<DIGITS[(n % 10) + 1]>>

RECURSIVE PadStart(_, _, _)
\* String.prototype.padStart with a pad string of one character
PadStart(str, targetLength, padString) ==
    IF Len(str) >= targetLength THEN str
    ELSE PadStart(<<padString>> \o str, targetLength, padString)

\* getClientCode using getMonth() as it is, counted from zero.
GetClientCode_MonthFromZero(settings, date) ==
    LET day == PadStart(StringOf(date.date), 2, "0")
        month == PadStart(StringOf(date.month), 2, "0")
        year == StringOf(date.fullYear)
    IN settings.accessSecret \o <<"-">> \o day \o <<"-">> \o month \o <<"-">> \o year

\* AccessGate.getClientCode; date is what new Date() returns.
GetClientCode(settings, date) ==
    LET day == PadStart(StringOf(date.date), 2, "0")
        month == PadStart(StringOf(date.month + 1), 2, "0")
        year == StringOf(date.fullYear)
    IN settings.accessSecret \o <<"-">> \o day \o <<"-">> \o month \o <<"-">> \o year

\* new Date().toISOString().split('T')[0], taken in a zone where the local
\* date is the UTC date
IsoDate(date) ==
    StringOf(date.fullYear) \o <<"-">> \o PadStart(StringOf(date.month + 1), 2, "0")
        \o <<"-">> \o PadStart(StringOf(date.date), 2, "0")

\* filename.endsWith('.txt'); a file name is a sequence of parts and the
\* extension, where there is one, is its last part
EndsWithTxt(name) == Len(name) > 0 /\ name[Len(name)] = ".txt"

\* The text handleSaveToFile assembles, by sections: the title line, the
\* text under "SYSTEM PROMPT USED:" and the entries under "CONVERSATION:"
\* (the line with the time of the export is left out).
FileContent(promptForContext, historyToSave) ==
    [title |-> "Conversation from AI Prompt Generator",
     systemPromptUsed |-> promptForContext,
     conversation |-> [i \in DOMAIN historyToSave |->
                          [prefix |-> IF historyToSave[i].role = "user"
                                      THEN "User:" ELSE "Assistant:",
                           content |-> historyToSave[i].content]]]

\* The keys of the three useLocalStorage slices.
ADMIN_SETTINGS_KEY == "prompt-gen-admin-settings"

ACCESS_LEVEL_KEY == "prompt-gen-access-level"

HISTORY_KEY == "prompt-gen-history"

KEYS == {ADMIN_SETTINGS_KEY, ACCESS_LEVEL_KEY, HISTORY_KEY}

\* An item of the storage is Null (getItem returns null: no such key), a text
\* that is not JSON ([text |-> ...], "" among them), or the JSON text of a
\* value ([json |-> value]).
Stringify(value) == [json |-> value]

\* JSON.parse: the decoded value, or a SyntaxError thrown
Parse(item) ==
    IF "json" \in DOMAIN item THEN [threw |-> FALSE, value |-> item.json]
    ELSE [threw |-> TRUE]

\* The initializer of useLocalStorage's useState: item ? JSON.parse(item) :
\* initialValue, and initialValue when that throws
UseLocalStorage(storage, key, initialValue) ==
    LET item == storage[key]
    IN IF item = Null \/ item = [text |-> ""] THEN initialValue
       ELSE IF Parse(item).threw THEN initialValue ELSE Parse(item).value

\* setItem that writes although the storage refuses.
SetItem_IgnoresRefusal(key, valueToStore) ==
    localStorage' = [localStorage EXCEPT ![key] = Stringify(valueToStore)]

\* The rest of setValue after setStoredValue(valueToStore):
\* window.localStorage.setItem(key, JSON.stringify(valueToStore)), whose
\* exception the catch block logs
SetItem(key, valueToStore) ==
    IF quotaExceeded THEN UNCHANGED localStorage
    ELSE localStorage' = [localStorage EXCEPT ![key] = Stringify(valueToStore)]

\* setAccessLevel(level): useLocalStorage.setValue of the access level
SetAccessLevel(level) ==
    /\ accessLevel' = level
    /\ SetItem(ACCESS_LEVEL_KEY, level)

\* A history as JSON.parse finds it in localStorage: n items written by
\* earlier sessions, newest first.
StoredHistory(n) ==
    [i \in 1..n |-> HistoryItem(n + 1 - i, <<"h">>, n + 1 - i, <<"d">>, TONES[1], <<"u">>)]

----------------------------------------------------------------------------
(* Initial state: App's useState/useRef/useLocalStorage initial values *)

\* ai is null without VITE_API_KEY, and null with the error set when the
\* GoogleGenAI constructor throws.
SessionInit(stored) ==
    /\ ai \in BOOLEAN
    /\ userInput = <<>>
    /\ tone = TONES[1]
    /\ targetAudience = <<>>
    /\ generatedPrompt = <<>>
    /\ isLoading = FALSE
    /\ error \in (IF ai THEN {NoError} ELSE {NoError, ErrMsg(FAILED_TO_INITIALIZE)})
    /\ history \in stored
    /\ activeTab = "refine"
    /\ chatHistory = <<>>
    /\ isChatLoading = FALSE
    /\ originalPromptForChat = <<>>
    /\ testChatHistory = <<>>
    /\ isTestChatLoading = FALSE
    /\ testChatRef = Null
    /\ gens = {}
    /\ refines = {}
    /\ tests = {}
    /\ clock = HISTORY_KEEP + 1
    /\ dispatched = [gen |-> 0, refine |-> 0, test |-> 0, del |-> 0]
    /\ crashed = FALSE

\* The access level found in localStorage is one of levels; AccessGate's
\* fields are those of its mount.
GateInit(levels) ==
    /\ accessLevel \in levels
    /\ adminSettings = DEFAULT_ADMIN_SETTINGS
    /\ code = <<>>
    /\ gateError = ""
    /\ today = Dates[1]

\* chatToSave is "null", "refine" or "test".
SaveInit ==
    /\ chatToSave = "null"
    /\ isSaveModalOpen = FALSE
    /\ filename = <<>>
    /\ download = Null

\* The item under a key from which useLocalStorage loaded value: none when
\* value is the slice's initial value.
ItemOf(value, initialValue) == IF value = initialValue THEN Null ELSE Stringify(value)

\* The storage the three slices were loaded from; writes are accepted.
StorageInit ==
    /\ localStorage = [key \in KEYS |->
                          CASE key = ADMIN_SETTINGS_KEY
                                 -> ItemOf(adminSettings, DEFAULT_ADMIN_SETTINGS)
                            [] key = ACCESS_LEVEL_KEY -> ItemOf(accessLevel, "none")
                            [] key = HISTORY_KEY -> ItemOf(history, <<>>)]
    /\ quotaExceeded = FALSE

\* A session behind the gate: the stored access level is client.
Init ==
    /\ SessionInit({StoredHistory(0), StoredHistory(StoredItems)})
    /\ GateInit({"client"})
    /\ SaveInit
    /\ StorageInit

----------------------------------------------------------------------------
(* Prompt generation *)

\* App renders AccessGate instead of the main view while accessLevel is none.
MainView == accessLevel # "none"

\* Backend calls issued so far
Calls == dispatched.gen + dispatched.refine + dispatched.test

\* resetChatStates
ResetChatStates ==
    /\ chatHistory' = <<>>
    /\ testChatHistory' = <<>>
    /\ testChatRef' = Null
    /\ activeTab' = "refine"
    /\ error' = NoError

\* handleGeneratePrompt without the check of line 517: a missing client
\* does not stop it.
HandleGeneratePrompt_NoClientCheck(input, genTone, genAudience) ==
    /\ isLoading' = TRUE
    /\ generatedPrompt' = <<>>
    /\ ResetChatStates
    /\ dispatched' = [dispatched EXCEPT !.gen = @ + 1]
    /\ gens' = gens \cup {[id |-> dispatched.gen + 1, input |-> input,
                           genTone |-> genTone, genAudience |-> genAudience,
                           finalPrompt |-> <<>>, storedValue |-> history]}
    /\ UNCHANGED <<history, isChatLoading, originalPromptForChat,
                   isTestChatLoading, refines, tests, clock,
                   crashed, ai, tone, targetAudience>>

\* handleGeneratePrompt up to its first await.  The invocation keeps the
\* setHistory of the render that dispatched it, and with it that render's
\* storedValue.  Leaves userInput to the caller.
HandleGeneratePrompt(input, genTone, genAudience) ==
    IF ~ai
    THEN /\ error' = ErrMsg(NOT_INITIALIZED)
         /\ UNCHANGED <<generatedPrompt, isLoading, history, activeTab, refineVars,
                        testVars, gens, refines, tests, clock, dispatched, crashed,
                        ai, tone, targetAudience>>
    ELSE /\ isLoading' = TRUE
         /\ generatedPrompt' = <<>>
         /\ ResetChatStates
         /\ dispatched' = [dispatched EXCEPT !.gen = @ + 1]
         /\ gens' = gens \cup {[id |-> dispatched.gen + 1, input |-> input,
                                genTone |-> genTone, genAudience |-> genAudience,
                                finalPrompt |-> <<>>, storedValue |-> history]}
         /\ UNCHANGED <<history, isChatLoading, originalPromptForChat,
                        isTestChatLoading, refines, tests, clock,
                        crashed, ai, tone, targetAudience>>

\* The submit button is disabled while isLoading or without ai, and the two
\* text fields are `required`.
SubmitEnabled == ~isLoading /\ ai /\ Truthy(userInput) /\ Truthy(targetAudience)

\* handleFormSubmit
FormSubmit ==
    /\ ~crashed
    /\ MainView
    /\ Calls < MaxCalls
    /\ SubmitEnabled
    /\ HandleGeneratePrompt(userInput, tone, targetAudience)
    /\ UNCHANGED userInput
    /\ UNCHANGED <<gateVars, saveVars, storageVars>>

\* The recommended-prompt cards are plain buttons, never disabled.
CardEnabled == TRUE

\* handleRecommendedClick
RecommendedClick(card) ==
    /\ ~crashed
    /\ MainView
    /\ Calls < MaxCalls
    /\ CardEnabled
    /\ userInput' = CardInput(card)
    /\ HandleGeneratePrompt(CardInput(card), "Professional", <<"General users">>)
    /\ UNCHANGED <<gateVars, saveVars, storageVars>>

\* One iteration of handleGeneratePrompt's for-await loop.
GenChunk(g, chunkText) ==
    /\ ~crashed
    /\ g \in gens
    /\ Len(g.finalPrompt) < MaxFragments
    /\ IF Truthy(chunkText)
       THEN /\ gens' = (gens \ {g}) \cup {[g EXCEPT !.finalPrompt = @ \o chunkText]}
            /\ generatedPrompt' = generatedPrompt \o chunkText
       ELSE UNCHANGED <<gens, generatedPrompt>>
    /\ UNCHANGED <<ai, formVars, isLoading, error, history, activeTab, refineVars,
                   testVars, refines, tests, clock, dispatched, crashed>>
    /\ UNCHANGED <<gateVars, saveVars, storageVars>>

\* The stream ended: the rest of the try block, then finally.  setHistory is
\* useLocalStorage's setValue, which applies the updater to the storedValue
\* of the render it was created in.
GenEnd(g) ==
    /\ ~crashed
    /\ g \in gens
    /\ originalPromptForChat' = g.finalPrompt
    /\ history' = PrependItem(HistoryItem(clock + 1, g.finalPrompt, clock + 1, g.input,
                                          g.genTone, g.genAudience), g.storedValue)
    /\ SetItem(HISTORY_KEY, history')
    /\ clock' = clock + 1
    /\ isLoading' = FALSE
    /\ gens' = gens \ {g}
    /\ UNCHANGED <<ai, formVars, generatedPrompt, error, activeTab, chatHistory,
                   isChatLoading, testVars, refines, tests, dispatched,
                   crashed>>
    /\ UNCHANGED <<gateVars, saveVars, quotaExceeded>>

\* The request was rejected or the stream failed: catch, then finally.
GenFail(g, err) ==
    /\ ~crashed
    /\ g \in gens
    /\ error' = ErrMsg(ErrorMessageOf(err))
    /\ isLoading' = FALSE
    /\ gens' = gens \ {g}
    /\ UNCHANGED <<ai, formVars, generatedPrompt, history, activeTab, refineVars,
                   testVars, refines, tests, clock, dispatched, crashed>>
    /\ UNCHANGED <<gateVars, saveVars, storageVars>>

----------------------------------------------------------------------------
(* The history panel.  The form is filled by handleSelectHistory and by     *)
(* handleRecommendedClick.                                                  *)

\* handleSelectHistory
SelectHistory(item) ==
    /\ ~crashed
    /\ MainView
    /\ userInput' = item.userInput
    /\ tone' = item.tone
    /\ targetAudience' = item.targetAudience
    /\ generatedPrompt' = item.prompt
    /\ originalPromptForChat' = item.prompt
    /\ ResetChatStates
    /\ UNCHANGED <<ai, isLoading, history, isChatLoading, isTestChatLoading, gens,
                   refines, tests, clock, dispatched, crashed>>
    /\ UNCHANGED <<gateVars, saveVars, storageVars>>

\* handleClearHistoryItem, from the render that shows the item
ClearHistoryItem(id) ==
    /\ ~crashed
    /\ MainView
    /\ dispatched.del < MaxDeletes
    /\ history' = FilterOutId(history, id)
    /\ SetItem(HISTORY_KEY, history')
    /\ dispatched' = [dispatched EXCEPT !.del = @ + 1]
    /\ UNCHANGED <<ai, formVars, genVars, activeTab, refineVars, testVars, gens,
                   refines, tests, clock, crashed>>
    /\ UNCHANGED <<gateVars, saveVars, quotaExceeded>>

\* handleClearAllHistory; confirmed is the answer to window.confirm
ClearAllHistory(confirmed) ==
    /\ ~crashed
    /\ MainView
    /\ Len(history) > 0
    /\ IF confirmed
       THEN history' = <<>> /\ SetItem(HISTORY_KEY, <<>>)
       ELSE UNCHANGED <<history, localStorage>>
    /\ UNCHANGED <<ai, formVars, genVars, activeTab, refineVars, testVars, gens,
                   refines, tests, clock, dispatched, crashed>>
    /\ UNCHANGED <<gateVars, saveVars, quotaExceeded>>

\* The items the history panel offers; the model clicks the newest and the oldest.
Offered == {history[i] : i \in {j \in {1, Len(history)} : j \in DOMAIN history}}

----------------------------------------------------------------------------
(* The refine thread *)

\* The chat panels are rendered when generatedPrompt && !isLoading.
PanelsShown == Truthy(generatedPrompt) /\ ~isLoading

\* handleSendMessage up to its first await: ai.chats.create (seeded with the
\* anchor) and chat.sendMessageStream are called before the handler suspends.
HandleSendMessage(message) ==
    IF ~ai
    THEN /\ error' = ErrMsg(NOT_INITIALIZED)
         /\ UNCHANGED <<refineVars, refines, dispatched>>
    ELSE /\ isChatLoading' = TRUE
         /\ chatHistory' = chatHistory \o <<ChatMessage("user", message),
                                            ChatMessage("model", <<>>)>>
         /\ dispatched' = [dispatched EXCEPT !.refine = @ + 1]
         /\ refines' = refines \cup {[id |-> dispatched.refine + 1, message |-> message,
                                      seed |-> originalPromptForChat,
                                      finalResponse |-> <<>>]}
         /\ UNCHANGED <<error, originalPromptForChat>>

\* The guard without trim(): whitespace-only text passes.
RefineAccepts_NoTrim(message) == Truthy(message) /\ ~isChatLoading

\* ChatPanel.handleSubmit's guard
RefineAccepts(message) == Truthy(Trim(message)) /\ ~isChatLoading

\* ChatPanel.handleSubmit
ChatPanelSubmit(message) ==
    /\ ~crashed
    /\ MainView
    /\ Calls < MaxCalls
    /\ PanelsShown /\ activeTab = "refine"
    /\ IF RefineAccepts(message)
       THEN HandleSendMessage(message)
       ELSE UNCHANGED <<error, refineVars, refines, dispatched>>
    /\ UNCHANGED <<ai, formVars, generatedPrompt, isLoading, history, activeTab,
                   testVars, gens, tests, clock, crashed>>
    /\ UNCHANGED <<gateVars, saveVars, storageVars>>

\* One iteration of handleSendMessage's for-await loop.
RefineChunk(r, chunkText) ==
    /\ ~crashed
    /\ r \in refines
    /\ Len(r.finalResponse) < MaxFragments
    /\ IF Truthy(chunkText)
       THEN /\ refines' = (refines \ {r}) \cup {[r EXCEPT !.finalResponse = @ \o chunkText]}
            /\ IF UpdaterThrows(chatHistory)
               THEN crashed' = TRUE /\ UNCHANGED chatHistory
               ELSE /\ chatHistory' = WriteLast(chatHistory, r.finalResponse \o chunkText)
                    /\ UNCHANGED crashed
       ELSE UNCHANGED <<refines, chatHistory, crashed>>
    /\ UNCHANGED <<ai, formVars, genVars, history, activeTab, isChatLoading,
                   originalPromptForChat, testVars, gens, tests, clock, dispatched>>
    /\ UNCHANGED <<gateVars, saveVars, storageVars>>

\* RefineEnd without line 634: the anchor keeps the prompt the turn started from.
RefineEnd_KeepsAnchor(r) ==
    /\ ~crashed
    /\ r \in refines
    /\ generatedPrompt' = r.finalResponse
    /\ isChatLoading' = FALSE
    /\ refines' = refines \ {r}
    /\ UNCHANGED <<ai, formVars, isLoading, error, history, activeTab, chatHistory,
                   originalPromptForChat, testVars, gens, tests, clock, dispatched,
                   crashed>>
    /\ UNCHANGED <<gateVars, saveVars, storageVars>>

\* The stream ended: the rest of the try block, then finally.
RefineEnd(r) ==
    /\ ~crashed
    /\ r \in refines
    /\ generatedPrompt' = r.finalResponse
    /\ originalPromptForChat' = r.finalResponse
    /\ isChatLoading' = FALSE
    /\ refines' = refines \ {r}
    /\ UNCHANGED <<ai, formVars, isLoading, error, history, activeTab, chatHistory,
                   testVars, gens, tests, clock, dispatched, crashed>>
    /\ UNCHANGED <<gateVars, saveVars, storageVars>>

\* The request was rejected or the stream failed: catch, then finally.
RefineFail(r, err) ==
    /\ ~crashed
    /\ r \in refines
    /\ IF UpdaterThrows(chatHistory)
       THEN crashed' = TRUE /\ UNCHANGED <<chatHistory, isChatLoading, refines>>
       ELSE /\ chatHistory' = WriteLast(chatHistory, ErrorMarker(ErrorMessageOf(err)))
            /\ isChatLoading' = FALSE
            /\ refines' = refines \ {r}
            /\ UNCHANGED crashed
    /\ UNCHANGED <<ai, formVars, genVars, history, activeTab, originalPromptForChat,
                   testVars, gens, tests, clock, dispatched>>
    /\ UNCHANGED <<gateVars, saveVars, storageVars>>

----------------------------------------------------------------------------
(* The test thread *)

\* handleSendTestMessage without the null check of line 657: every turn
\* creates a Chat bound to the prompt of its own moment.
HandleSendTestMessage_NewChatEachTurn(message) ==
    IF ~ai \/ ~Truthy(generatedPrompt)
    THEN /\ error' = ErrMsg(NOT_INITIALIZED_OR_NO_PROMPT)
         /\ UNCHANGED <<testVars, tests, dispatched>>
    ELSE LET chat == [id |-> dispatched.test + 1, systemInstruction |-> generatedPrompt]
         IN /\ isTestChatLoading' = TRUE
            /\ testChatHistory' = testChatHistory \o <<ChatMessage("user", message),
                                                       ChatMessage("model", <<>>)>>
            /\ testChatRef' = chat
            /\ dispatched' = [dispatched EXCEPT !.test = @ + 1]
            /\ tests' = tests \cup {[id |-> dispatched.test + 1, message |-> message,
                                     chat |-> chat, finalResponse |-> <<>>]}
            /\ UNCHANGED error

\* handleSendTestMessage up to its first await: the Chat is created when
\* testChatRef.current is null, and sendMessageStream is called on it.
HandleSendTestMessage(message) ==
    IF ~ai \/ ~Truthy(generatedPrompt)
    THEN /\ error' = ErrMsg(NOT_INITIALIZED_OR_NO_PROMPT)
         /\ UNCHANGED <<testVars, tests, dispatched>>
    ELSE LET chat == IF testChatRef = Null
                     THEN [id |-> dispatched.test + 1, systemInstruction |-> generatedPrompt]
                     ELSE testChatRef
         IN /\ isTestChatLoading' = TRUE
            /\ testChatHistory' = testChatHistory \o <<ChatMessage("user", message),
                                                       ChatMessage("model", <<>>)>>
            /\ testChatRef' = chat
            /\ dispatched' = [dispatched EXCEPT !.test = @ + 1]
            /\ tests' = tests \cup {[id |-> dispatched.test + 1, message |-> message,
                                     chat |-> chat, finalResponse |-> <<>>]}
            /\ UNCHANGED error

\* TestChatPanel.handleSubmit's guard
TestAccepts(message) == Truthy(Trim(message)) /\ ~isTestChatLoading

\* TestChatPanel.handleSubmit
TestPanelSubmit(message) ==
    /\ ~crashed
    /\ MainView
    /\ Calls < MaxCalls
    /\ PanelsShown /\ activeTab = "test"
    /\ IF TestAccepts(message)
       THEN HandleSendTestMessage(message)
       ELSE UNCHANGED <<error, testVars, tests, dispatched>>
    /\ UNCHANGED <<ai, formVars, generatedPrompt, isLoading, history, activeTab,
                   refineVars, gens, refines, clock, crashed>>
    /\ UNCHANGED <<gateVars, saveVars, storageVars>>

\* One iteration of handleSendTestMessage's for-await loop.
TestChunk(t, chunkText) ==
    /\ ~crashed
    /\ t \in tests
    /\ Len(t.finalResponse) < MaxFragments
    /\ IF Truthy(chunkText)
       THEN /\ tests' = (tests \ {t}) \cup {[t EXCEPT !.finalResponse = @ \o chunkText]}
            /\ IF UpdaterThrows(testChatHistory)
               THEN crashed' = TRUE /\ UNCHANGED testChatHistory
               ELSE /\ testChatHistory' = WriteLast(testChatHistory,
                                                    t.finalResponse \o chunkText)
                    /\ UNCHANGED crashed
       ELSE UNCHANGED <<tests, testChatHistory, crashed>>
    /\ UNCHANGED <<ai, formVars, genVars, history, activeTab, refineVars,
                   isTestChatLoading, testChatRef, gens, refines, clock, dispatched>>
    /\ UNCHANGED <<gateVars, saveVars, storageVars>>

\* The stream ended: finally.
TestEnd(t) ==
    /\ ~crashed
    /\ t \in tests
    /\ isTestChatLoading' = FALSE
    /\ tests' = tests \ {t}
    /\ UNCHANGED <<ai, formVars, genVars, history, activeTab, refineVars,
                   testChatHistory, testChatRef, gens, refines, clock, dispatched, crashed>>
    /\ UNCHANGED <<gateVars, saveVars, storageVars>>

\* The request was rejected or the stream failed: catch, then finally.
TestFail(t, err) ==
    /\ ~crashed
    /\ t \in tests
    /\ IF UpdaterThrows(testChatHistory)
       THEN crashed' = TRUE /\ UNCHANGED <<testChatHistory, isTestChatLoading, tests>>
       ELSE /\ testChatHistory' = WriteLast(testChatHistory,
                                            ErrorMarker(ErrorMessageOf(err)))
            /\ isTestChatLoading' = FALSE
            /\ tests' = tests \ {t}
            /\ UNCHANGED crashed
    /\ UNCHANGED <<ai, formVars, genVars, history, activeTab, refineVars, testChatRef,
                   gens, refines, clock, dispatched>>
    /\ UNCHANGED <<gateVars, saveVars, storageVars>>

\* handleClearTestChat calling resetChatStates: the refine thread goes too.
ClearTestChat_ResetsAll ==
    /\ ~crashed
    /\ MainView
    /\ PanelsShown /\ activeTab = "test"
    /\ ResetChatStates
    /\ UNCHANGED <<ai, formVars, generatedPrompt, isLoading, history, refines,
                   isChatLoading, originalPromptForChat,
                   isTestChatLoading, gens, tests, clock, dispatched, crashed>>
    /\ UNCHANGED <<gateVars, saveVars, storageVars>>

\* handleClearTestChat; the Clear button is never disabled.
ClearTestChat ==
    /\ ~crashed
    /\ MainView
    /\ PanelsShown /\ activeTab = "test"
    /\ testChatHistory' = <<>>
    /\ testChatRef' = Null
    /\ UNCHANGED <<ai, formVars, genVars, history, activeTab, refineVars,
                   isTestChatLoading, gens, refines, tests, clock, dispatched, crashed>>
    /\ UNCHANGED <<gateVars, saveVars, storageVars>>

\* The two tab buttons
SetActiveTab(tab) ==
    /\ ~crashed
    /\ MainView
    /\ PanelsShown
    /\ activeTab' = tab
    /\ UNCHANGED <<ai, formVars, genVars, history, refineVars, testVars, gens,
                   refines, tests, clock, dispatched, crashed>>
    /\ UNCHANGED <<gateVars, saveVars, storageVars>>

----------------------------------------------------------------------------
(* The access gate and the admin panel.  The fields of AccessGate are given *)
(* their useState values when it is mounted (at logout); while the main     *)
(* view is shown they keep what the unmounted component last held.          *)

\* The access-code field's onChange
SetCode(value) ==
    /\ ~crashed
    /\ ~MainView
    /\ code' = value
    /\ gateError' = ""
    /\ UNCHANGED <<accessLevel, adminSettings, today, sessionVars, saveVars, storageVars>>

\* handleSubmit with an else branch that lets every non-empty code in.
AccessGateSubmit_GrantsOnAnyCode ==
    /\ ~crashed
    /\ ~MainView
    /\ IF code = ADMIN_CODE
       THEN SetAccessLevel("admin") /\ UNCHANGED gateError
       ELSE IF code # <<>>
            THEN SetAccessLevel("client") /\ UNCHANGED gateError
            ELSE gateError' = INVALID_ACCESS_CODE /\ UNCHANGED <<accessLevel, localStorage>>
    /\ UNCHANGED <<adminSettings, code, today, sessionVars, saveVars, quotaExceeded>>

\* AccessGate.handleSubmit
AccessGateSubmit ==
    /\ ~crashed
    /\ ~MainView
    /\ IF code = ADMIN_CODE
       THEN SetAccessLevel("admin") /\ UNCHANGED gateError
       ELSE IF code = GetClientCode(adminSettings, today)
            THEN SetAccessLevel("client") /\ UNCHANGED gateError
            ELSE gateError' = INVALID_ACCESS_CODE /\ UNCHANGED <<accessLevel, localStorage>>
    /\ UNCHANGED <<adminSettings, code, today, sessionVars, saveVars, quotaExceeded>>

\* The "Continue as Guest" button, rendered while the gate is not enabled
ContinueAsGuest ==
    /\ ~crashed
    /\ ~MainView
    /\ ~adminSettings.isGateEnabled
    /\ SetAccessLevel("client")
    /\ UNCHANGED <<adminSettings, code, gateError, today, sessionVars, saveVars, quotaExceeded>>

\* AdminPanel.handleSave; secret and isEnabled are the panel's fields
AdminSave(secret, isEnabled) ==
    /\ ~crashed
    /\ accessLevel = "admin"
    /\ adminSettings' = [accessSecret |-> secret, isGateEnabled |-> isEnabled]
    /\ SetItem(ADMIN_SETTINGS_KEY, adminSettings')
    /\ UNCHANGED <<accessLevel, code, gateError, today, sessionVars, saveVars, quotaExceeded>>

\* handleLogout; App then renders AccessGate, which is mounted anew
Logout ==
    /\ ~crashed
    /\ MainView
    /\ SetAccessLevel("none")
    /\ code' = <<>>
    /\ gateError' = ""
    /\ UNCHANGED <<adminSettings, today, sessionVars, saveVars, quotaExceeded>>

\* Time passes: new Date() returns the later date from now on
DayPasses ==
    /\ today = Dates[1]
    /\ today' = Dates[2]
    /\ UNCHANGED <<accessLevel, adminSettings, code, gateError, sessionVars, saveVars, storageVars>>

----------------------------------------------------------------------------
(* Export of a thread: the Export buttons of the two panels and the save    *)
(* dialog.  download is the file the browser was last told to save.         *)

\* handleOpenSaveModal, from the Export button of the panel shown
OpenSaveModal(type) ==
    /\ ~crashed
    /\ MainView
    /\ PanelsShown /\ activeTab = type
    /\ Len(IF type = "refine" THEN chatHistory ELSE testChatHistory) > 0
    /\ chatToSave' = type
    /\ filename' = <<type, "-conversation-">> \o IsoDate(today) \o <<".txt">>
    /\ isSaveModalOpen' = TRUE
    /\ UNCHANGED <<download, sessionVars, gateVars, storageVars>>

\* The file name field of SaveChatModal
SetFilename(name) ==
    /\ ~crashed
    /\ MainView
    /\ isSaveModalOpen
    /\ filename' = name
    /\ UNCHANGED <<chatToSave, isSaveModalOpen, download, sessionVars, gateVars, storageVars>>

\* SaveChatModal's Cancel (onClose)
CloseSaveModal ==
    /\ ~crashed
    /\ MainView
    /\ isSaveModalOpen
    /\ isSaveModalOpen' = FALSE
    /\ UNCHANGED <<chatToSave, filename, download, sessionVars, gateVars, storageVars>>

\* handleSaveToFile, from SaveChatModal's Save
SaveToFile ==
    /\ ~crashed
    /\ MainView
    /\ isSaveModalOpen
    /\ LET historyToSave == IF chatToSave = "refine" THEN chatHistory ELSE testChatHistory
           promptForContext == IF chatToSave = "refine" THEN originalPromptForChat
                               ELSE generatedPrompt
       IN download' = [download |-> IF EndsWithTxt(filename) THEN filename
                                    ELSE filename \o <<".txt">>,
                       content |-> FileContent(promptForContext, historyToSave)]
    /\ isSaveModalOpen' = FALSE
    /\ chatToSave' = "null"
    /\ UNCHANGED <<filename, sessionVars, gateVars, storageVars>>

----------------------------------------------------------------------------
(* The browser around the app: the page is loaded again, and the storage    *)
(* starts or stops refusing writes.                                         *)

\* The page is loaded again: App is mounted anew, every useState and useRef
\* takes its initial value, every useLocalStorage slice is read from the
\* storage, and the handlers that were running are gone.
Reload ==
    /\ history' = UseLocalStorage(localStorage, HISTORY_KEY, <<>>)
    /\ accessLevel' = UseLocalStorage(localStorage, ACCESS_LEVEL_KEY, "none")
    /\ adminSettings' = UseLocalStorage(localStorage, ADMIN_SETTINGS_KEY,
                                        DEFAULT_ADMIN_SETTINGS)
    /\ userInput' = <<>>
    /\ tone' = TONES[1]
    /\ targetAudience' = <<>>
    /\ generatedPrompt' = <<>>
    /\ isLoading' = FALSE
    /\ error' \in (IF ai THEN {NoError} ELSE {NoError, ErrMsg(FAILED_TO_INITIALIZE)})
    /\ activeTab' = "refine"
    /\ chatHistory' = <<>>
    /\ isChatLoading' = FALSE
    /\ originalPromptForChat' = <<>>
    /\ testChatHistory' = <<>>
    /\ isTestChatLoading' = FALSE
    /\ testChatRef' = Null
    /\ gens' = {}
    /\ refines' = {}
    /\ tests' = {}
    /\ crashed' = FALSE
    /\ code' = <<>>
    /\ gateError' = ""
    /\ chatToSave' = "null"
    /\ isSaveModalOpen' = FALSE
    /\ filename' = <<>>
    /\ UNCHANGED <<ai, clock, dispatched, today, download, storageVars>>

\* The storage is full or disabled from now on: setItem throws
StorageFills ==
    /\ ~quotaExceeded
    /\ quotaExceeded' = TRUE
    /\ UNCHANGED <<localStorage, sessionVars, gateVars, saveVars>>

\* The storage accepts writes again
StorageFrees ==
    /\ quotaExceeded
    /\ quotaExceeded' = FALSE
    /\ UNCHANGED <<localStorage, sessionVars, gateVars, saveVars>>

----------------------------------------------------------------------------

Next ==
    \/ FormSubmit
    \/ \E card \in Cards : RecommendedClick(card)
    \/ \E g \in gens : \E chunkText \in GenFragments : GenChunk(g, chunkText)
    \/ \E g \in gens : GenEnd(g)
    \/ \E g \in gens : \E err \in Thrown : GenFail(g, err)
    \/ \E item \in Offered : SelectHistory(item)
    \/ \E item \in Offered : ClearHistoryItem(item.id)
    \/ \E confirmed \in BOOLEAN : ClearAllHistory(confirmed)
    \/ \E message \in Messages : ChatPanelSubmit(message)
    \/ \E r \in refines : \E chunkText \in RefineFragments : RefineChunk(r, chunkText)
    \/ \E r \in refines : RefineEnd(r)
    \/ \E r \in refines : \E err \in Thrown : RefineFail(r, err)
    \/ \E message \in Messages : TestPanelSubmit(message)
    \/ \E t \in tests : \E chunkText \in TestFragments : TestChunk(t, chunkText)
    \/ \E t \in tests : TestEnd(t)
    \/ \E t \in tests : \E err \in Thrown : TestFail(t, err)
    \/ ClearTestChat
    \/ \E tab \in {"refine", "test"} : SetActiveTab(tab)

Spec == Init /\ [][Next]_vars

----------------------------------------------------------------------------
(* Sequential generations: the user starts a generation only while none is  *)
(* loading and leaves the history panel alone; the backend words every      *)
(* generation differently; localStorage holds a history of 49 or 50 items.  *)

\* The user clicks a card only while no generation is loading.
RecommendedClickWhenIdle(card) == ~isLoading /\ RecommendedClick(card)

InitSequential ==
    /\ SessionInit({StoredHistory(StoredItems), StoredHistory(HISTORY_KEEP),
                    StoredHistory(HISTORY_KEEP + 1)})
    /\ GateInit({"client"})
    /\ SaveInit
    /\ StorageInit

NextSequential ==
    \/ \E card \in Cards : RecommendedClickWhenIdle(card)
    \/ \E g \in gens : \E chunkText \in GenFragmentsOf(g) : GenChunk(g, chunkText)
    \/ \E g \in gens : GenEnd(g)
    \/ \E g \in gens : \E err \in Thrown : GenFail(g, err)
    \/ \E message \in Messages : ChatPanelSubmit(message)
    \/ \E r \in refines : \E chunkText \in RefineFragments : RefineChunk(r, chunkText)
    \/ \E r \in refines : RefineEnd(r)
    \/ \E r \in refines : \E err \in Thrown : RefineFail(r, err)
    \/ \E message \in Messages : TestPanelSubmit(message)
    \/ \E t \in tests : \E chunkText \in TestFragments : TestChunk(t, chunkText)
    \/ \E t \in tests : TestEnd(t)
    \/ \E t \in tests : \E err \in Thrown : TestFail(t, err)
    \/ \E tab \in {"refine", "test"} : SetActiveTab(tab)

SpecSequential == InitSequential /\ [][NextSequential]_vars

----------------------------------------------------------------------------
(* The gate: a visitor at the access gate of a deployment without a backend *)
(* client, the administrator's settings, and the session behind the gate.   *)

InitGate ==
    /\ SessionInit({StoredHistory(StoredItems)})
    /\ ~ai
    /\ GateInit({"none"})
    /\ SaveInit
    /\ StorageInit

NextGate ==
    \/ \E value \in Codes : SetCode(value)
    \/ AccessGateSubmit
    \/ ContinueAsGuest
    \/ \E secret \in Secrets : \E isEnabled \in BOOLEAN : AdminSave(secret, isEnabled)
    \/ Logout
    \/ DayPasses
    \/ \E card \in Cards : RecommendedClick(card)
    \/ \E item \in Offered : SelectHistory(item)
    \/ \E confirmed \in BOOLEAN : ClearAllHistory(confirmed)
    \/ \E message \in Messages : ChatPanelSubmit(message)
    \/ \E message \in Messages : TestPanelSubmit(message)
    \/ \E tab \in {"refine", "test"} : SetActiveTab(tab)

SpecGate == InitGate /\ [][NextGate]_vars

----------------------------------------------------------------------------
(* Export: a session with generations one after the other, turns on both    *)
(* threads, and the save dialog.  The dialog is an overlay over the whole   *)
(* page, so the page's buttons are used only while it is closed; streams    *)
(* that were started before go on behind it.                                *)

InitExport ==
    /\ SessionInit({StoredHistory(0)})
    /\ GateInit({"client"})
    /\ SaveInit
    /\ StorageInit

NextExport ==
    \/ ~isSaveModalOpen /\ \E card \in Cards : RecommendedClickWhenIdle(card)
    \/ ~isSaveModalOpen /\ \E message \in Messages : ChatPanelSubmit(message)
    \/ ~isSaveModalOpen /\ \E message \in Messages : TestPanelSubmit(message)
    \/ ~isSaveModalOpen /\ ClearTestChat
    \/ ~isSaveModalOpen /\ \E tab \in {"refine", "test"} : SetActiveTab(tab)
    \/ ~isSaveModalOpen /\ \E type \in {"refine", "test"} : OpenSaveModal(type)
    \/ \E g \in gens : \E chunkText \in GenFragments : GenChunk(g, chunkText)
    \/ \E g \in gens : GenEnd(g)
    \/ \E r \in refines : \E chunkText \in RefineFragments : RefineChunk(r, chunkText)
    \/ \E r \in refines : RefineEnd(r)
    \/ \E t \in tests : \E chunkText \in TestFragments : TestChunk(t, chunkText)
    \/ \E t \in tests : TestEnd(t)
    \/ \E name \in Filenames : SetFilename(name)
    \/ CloseSaveModal
    \/ SaveToFile

SpecExport == InitExport /\ [][NextExport]_vars

----------------------------------------------------------------------------
(* Persistence: the three useLocalStorage slices over a storage that holds  *)
(* anything at the start and may refuse writes, across page loads.          *)

\* The storage with the given items under the three keys.
Contents(settingsItem, levelItem, historyItem) ==
    [key \in KEYS |-> CASE key = ADMIN_SETTINGS_KEY -> settingsItem
                        [] key = ACCESS_LEVEL_KEY -> levelItem
                        [] key = HISTORY_KEY -> historyItem]

\* What the storage holds when the page is first loaded: nothing; what an
\* administrator's session left; empty texts; texts that are not JSON; and
\* two mixtures of these.
StoredContents ==
    LET settings == Stringify([accessSecret |-> <<"NEW">>, isGateEnabled |-> FALSE])
        level == Stringify("admin")
        stored == Stringify(StoredHistory(StoredItems))
        empty == [text |-> ""]
        broken == [text |-> "{"]
    IN {Contents(Null, Null, Null),
        Contents(settings, level, stored),
        Contents(empty, empty, empty),
        Contents(broken, broken, broken),
        Contents(broken, level, stored),
        Contents(settings, Null, broken)}

InitStorage ==
    /\ localStorage \in StoredContents
    /\ quotaExceeded = FALSE
    /\ SessionInit({UseLocalStorage(localStorage, HISTORY_KEY, <<>>)})
    /\ ai
    /\ accessLevel = UseLocalStorage(localStorage, ACCESS_LEVEL_KEY, "none")
    /\ adminSettings = UseLocalStorage(localStorage, ADMIN_SETTINGS_KEY,
                                       DEFAULT_ADMIN_SETTINGS)
    /\ code = <<>>
    /\ gateError = ""
    /\ today = Dates[1]
    /\ SaveInit

NextStorage ==
    \/ \E value \in {ADMIN_CODE, <<"admin">>} : SetCode(value)
    \/ AccessGateSubmit
    \/ ContinueAsGuest
    \/ \E secret \in Secrets : \E isEnabled \in BOOLEAN : AdminSave(secret, isEnabled)
    \/ Logout
    \/ dispatched.gen < MaxStoredGenerations
          /\ \E card \in Cards : RecommendedClickWhenIdle(card)
    \/ \E g \in gens : \E chunkText \in GenFragments : GenChunk(g, chunkText)
    \/ \E g \in gens : GenEnd(g)
    \/ \E item \in Offered : ClearHistoryItem(item.id)
    \/ \E confirmed \in BOOLEAN : ClearAllHistory(confirmed)
    \/ Reload
    \/ StorageFills
    \/ StorageFrees

SpecStorage == InitStorage /\ [][NextStorage]_vars

----------------------------------------------------------------------------
(* Steps as they show in the state *)

\* A generation was dispatched and entered the generating state.
GenStarts == dispatched'.gen = dispatched.gen + 1

\* The invocation g of handleGeneratePrompt ran to its end in this step,
\* successfully (a HistoryItem was created) or not.
GenFinishes(g) == g \in gens /\ g \notin gens' /\ \A h \in gens' : h.id # g.id

GenSucceeds(g) == GenFinishes(g) /\ clock' = clock + 1

GenFails(g) == GenFinishes(g) /\ clock' = clock

ThreadsAreReset(refineThread, testThread, handle) ==
    refineThread = <<>> /\ testThread = <<>> /\ handle = Null

----------------------------------------------------------------------------
(* C1 *)

\* C1: whenever a generation enters the generating state the refine thread
\* and the test thread are empty and the test handle is absent, and they are
\* still so at the moment that generation finishes.
C1_ThreadsEmptyFromStartToFinish ==
    [][/\ GenStarts => ThreadsAreReset(chatHistory', testChatHistory', testChatRef')
       /\ \A g \in gens :
            GenFinishes(g) => ThreadsAreReset(chatHistory', testChatHistory', testChatRef')
      ]_vars

----------------------------------------------------------------------------
(* C2 *)

\* C2: when a generation stream completes successfully, generatedPrompt is
\* the concatenation of the fragments that stream yielded, and every value
\* published while it streamed was the concatenation so far.
C2_PromptIsConcatenationOfFragments ==
    [][\A g \in gens :
         /\ GenSucceeds(g) => generatedPrompt' = g.finalPrompt
         /\ \A h \in gens' :
              (h.id = g.id /\ h.finalPrompt # g.finalPrompt)
                  => generatedPrompt' = h.finalPrompt
      ]_vars

----------------------------------------------------------------------------
(* C3 *)

\* C3: a successfully completed generation leaves the history as one new
\* item, holding the generated text, followed by the first 49 entries of the
\* history as it stood just before the completion.
C3_PrependsToCurrentHistory ==
    [][\A g \in gens :
         GenSucceeds(g) =>
            /\ Len(history') >= 1
            /\ history'[1].prompt = g.finalPrompt
            /\ history'[1].id \notin {history[i].id : i \in DOMAIN history}
            /\ Tail(history') = Slice0(history, 49)
      ]_vars

----------------------------------------------------------------------------
(* C7 *)

\* C7: at most one generation call is in flight at any time.
C7_AtMostOneGeneration == Cardinality(gens) <= 1

----------------------------------------------------------------------------
(* C4 *)

TestStarts == dispatched'.test = dispatched.test + 1

\* C4: the test handle is created only by a test message sent while it was
\* absent, bound to the generated prompt of that moment; while it exists it
\* stays the same handle with the same binding, whatever happens to the
\* prompt, and every test message uses it; it becomes absent only by
\* clearTestThread, a new generation or a history selection.
C4_HandleLifecycle ==
    [][/\ (testChatRef = Null /\ testChatRef' # Null)
            => (TestStarts /\ testChatRef'.systemInstruction = generatedPrompt)
       /\ (testChatRef # Null /\ testChatRef' # Null) => testChatRef' = testChatRef
       /\ TestStarts => \E t \in tests' \ tests : t.chat = testChatRef'
       /\ (testChatRef # Null /\ testChatRef' = Null)
            => (GenStarts \/ ClearTestChat \/ \E item \in Offered : SelectHistory(item))
      ]_vars

\* A second test message is in flight on the handle the first one created,
\* after a refine turn changed the generated prompt.
C4_Witness ==
    /\ testChatRef # Null
    /\ testChatRef.systemInstruction # generatedPrompt
    /\ \E t \in tests : t.id > testChatRef.id /\ t.chat = testChatRef
    /\ dispatched.refine > 0

\* The handle made absent is created anew, bound to the prompt of that later
\* moment: a handle of the second test message.
C4_WitnessRecreated == testChatRef # Null /\ testChatRef.id = 2

----------------------------------------------------------------------------
(* C5 *)

RefineStarts == dispatched'.refine = dispatched.refine + 1

\* The refine turn r ran to its end without writing an error marker.
RefineSucceeds(r) ==
    /\ r \in refines
    /\ \A q \in refines' : q.id # r.id
    /\ chatHistory' = chatHistory

\* C5: when a refine turn's stream completes successfully, the generated
\* prompt and the refine anchor are both the final accumulated text of that
\* turn, and a refine turn is seeded with the anchor of the moment it starts.
C5_RefineReplacesPromptAndAnchor ==
    [][/\ \A r \in refines :
            RefineSucceeds(r) => /\ generatedPrompt' = r.finalResponse
                                 /\ originalPromptForChat' = r.finalResponse
       /\ RefineStarts => \E r \in refines' \ refines : r.seed = originalPromptForChat
      ]_vars

\* A second refine turn is in flight, seeded with the text the first one
\* produced (shown in the first turn's model message), not with the prompt
\* the first turn started from.
C5_Witness ==
    \E r \in refines :
        /\ r.id = 2
        /\ Len(chatHistory) = 4
        /\ r.seed = chatHistory[2].content
        /\ r.seed = <<"r", "r">>

----------------------------------------------------------------------------
(* C6 *)

Last(s) == s[Len(s)]

\* C6: when a refine turn's stream fails, the placeholder's content becomes
\* "Error: " + message, and the generated prompt and the anchor are unchanged.
C6_RefineFailureMarksPlaceholder ==
    [][\A r \in refines : \A err \in Thrown :
         RefineFail(r, err) =>
            /\ chatHistory' # <<>>
            /\ Last(chatHistory') = ChatMessage("model", <<"Error: ", ErrorMessageOf(err)>>)
            /\ generatedPrompt' = generatedPrompt
            /\ originalPromptForChat' = originalPromptForChat
      ]_vars

----------------------------------------------------------------------------
(* C8 *)

IsBlank(message) == \A i \in DOMAIN message : message[i] = " "

UserMessages(thread) ==
    {thread[i].content : i \in {j \in DOMAIN thread : thread[j].role = "user"}}

\* C8: no refine (test) message that is empty or whitespace-only ever reaches
\* the backend or the thread, and while a refine (test) call is in flight no
\* step issues another one or appends to that thread; this also after the
\* thread was reset or cleared under the call in flight.
C8_GuardedSubmit ==
    /\ [](/\ \A r \in refines : ~IsBlank(r.message)
          /\ \A t \in tests : ~IsBlank(t.message)
          /\ \A m \in UserMessages(chatHistory) \cup UserMessages(testChatHistory) :
                ~IsBlank(m)
          /\ Cardinality(refines) <= 1
          /\ Cardinality(tests) <= 1
          /\ (refines # {}) = isChatLoading
          /\ (tests # {}) = isTestChatLoading)
    /\ [][/\ isChatLoading => (~RefineStarts /\ refines' \subseteq
                                    {r \in refines' : \E q \in refines : q.id = r.id}
                                /\ Len(chatHistory') <= Len(chatHistory))
          /\ isTestChatLoading => (~TestStarts /\ Len(testChatHistory') <= Len(testChatHistory))
          /\ Len(chatHistory') > Len(chatHistory) => RefineStarts
          /\ Len(testChatHistory') > Len(testChatHistory) => TestStarts
         ]_vars

\* The refine panel is shown, its call is in flight and its thread was reset
\* under it: a submit is possible and refused.
C8_Witness ==
    /\ ~crashed
    /\ PanelsShown /\ activeTab = "refine"
    /\ isChatLoading /\ refines # {}
    /\ chatHistory = <<>>
    /\ ENABLED (\E message \in Messages : ChatPanelSubmit(message))

----------------------------------------------------------------------------
(* C9 *)

\* The last two messages of the thread are the ones the turn appended.
OwnPlaceholder(thread, turn) ==
    /\ Len(thread) >= 2
    /\ thread[Len(thread) - 1] = ChatMessage("user", turn.message)
    /\ thread[Len(thread)].role = "model"

\* C9: every fragment and every error marker of a chat turn is written into
\* the placeholder that turn appended, never into a missing message.
C9_WritesHitOwnPlaceholder ==
    [][/\ \A t \in tests :
            (\/ \E c \in TestFragments \ {<<>>} : TestChunk(t, c)
             \/ \E err \in Thrown : TestFail(t, err))
            => (OwnPlaceholder(testChatHistory, t) /\ ~crashed')
       /\ \A r \in refines :
            (\/ \E c \in RefineFragments \ {<<>>} : RefineChunk(r, c)
             \/ \E err \in Thrown : RefineFail(r, err))
            => (OwnPlaceholder(chatHistory, r) /\ ~crashed')
      ]_vars

----------------------------------------------------------------------------
(* C10 *)

\* C10: every started generation, refine turn and test turn can run to the
\* end of its stream, success or failure, and then its channel is idle; and
\* in the idle state of a channel no call of that channel is in flight.
C10_ChannelsReturnToIdle ==
    /\ ~isLoading => gens = {}
    /\ ~isChatLoading => refines = {}
    /\ ~isTestChatLoading => tests = {}
    /\ \A g \in gens :
          ENABLED ((GenEnd(g) \/ \E err \in Thrown : GenFail(g, err)) /\ ~isLoading')
    /\ \A r \in refines :
          ENABLED ((RefineEnd(r) \/ \E err \in Thrown : RefineFail(r, err))
                   /\ ~isChatLoading')
    /\ \A t \in tests :
          ENABLED ((TestEnd(t) \/ \E err \in Thrown : TestFail(t, err))
                   /\ ~isTestChatLoading')

----------------------------------------------------------------------------
(* C11 *)

Tokens(text) == {text[i] : i \in DOMAIN text}

\* C11: when a generation fails, the machine is idle again with the error
\* message set and no HistoryItem appended, and the generated prompt is
\* unchanged: whether that means the prompt from before the generation or
\* the prompt as entering the generating state left it, it holds none of the
\* failed generation's own output.
C11_FailedGenerationLeavesPrompt ==
    [][\A g \in gens :
         GenFails(g) =>
            /\ ~isLoading'
            /\ error' # NoError
            /\ history' = history
            /\ GenText(g.id) \notin Tokens(generatedPrompt')
      ]_vars

----------------------------------------------------------------------------
(* C12 *)

\* The text holds output of a generation that entered the generating state
\* before the newest one did.
EarlierText(text) ==
    \E k \in 1..(dispatched.gen - 1) : GenText(k) \in Tokens(text)

\* C12: once a new generation has entered the generating state, the anchor
\* a refine turn sends as seed history and the prompt a test handle is bound
\* to are never the text of an earlier generation.
C12_NoContextFromEarlierGeneration ==
    [][/\ RefineStarts => \A r \in refines' \ refines : ~EarlierText(r.seed)
       /\ TestStarts =>
            \A t \in tests' \ tests : ~EarlierText(t.chat.systemInstruction)
      ]_vars

----------------------------------------------------------------------------
(* C13 *)

NewestFirst(items) ==
    \A i \in 1..(Len(items) - 1) : items[i].timestamp > items[i + 1].timestamp

\* C13: the history holds at most 50 items, newest first, in every state;
\* every successful generation of a sequence puts its item first and keeps
\* the items before it in their order, dropping the oldest one when there
\* were 50, so that after more than 50 insertions the history holds exactly
\* the 50 most recently inserted items.
C13_HistoryCap ==
    /\ [](Len(history) <= 50 /\ NewestFirst(history))
    /\ [][\A g \in gens :
            GenSucceeds(g) =>
               /\ Len(history') = (IF Len(history) < 50 THEN Len(history) + 1 ELSE 50)
               /\ history'[1].prompt = g.finalPrompt
               /\ history'[1].id \notin {history[i].id : i \in DOMAIN history}
               /\ \A i \in 2..Len(history') : history'[i] = history[i - 1]
         ]_vars

\* 50 stored items and two more generated: the history holds the 50 most
\* recently inserted of the 52, the newest first and the third oldest last.
C13_Witness ==
    /\ Len(history) = 50
    /\ history[1].prompt = <<GenText(2)>>
    /\ history[2].prompt = <<GenText(1), GenText(1)>>
    /\ history[50].id = 3

----------------------------------------------------------------------------
(* C14 *)

\* The prompt of the items StoredHistory holds.  No stream yields it, so a
\* generated prompt equal to it was put there by a history selection and
\* has not changed since.
StoredPrompt == <<"h">>

\* The refine turn r, dispatched after the last reset of the refine thread,
\* ends successfully.
OwnRefineSucceeds(r) == OwnPlaceholder(chatHistory, r) /\ RefineSucceeds(r)

\* C14: selecting a history item sets the form, the prompt and the anchor to
\* the item's values, resets both threads and the handle, issues no backend
\* call and leaves the history unchanged; and the prompt it restored stays
\* until the user starts a new generation or a refine turn (or selects again).
C14_SelectionHoldsUntilNewTurn ==
    [][/\ \A item \in Offered :
            SelectHistory(item) =>
               /\ userInput' = item.userInput
               /\ tone' = item.tone
               /\ targetAudience' = item.targetAudience
               /\ generatedPrompt' = item.prompt
               /\ originalPromptForChat' = item.prompt
               /\ ThreadsAreReset(chatHistory', testChatHistory', testChatRef')
               /\ UNCHANGED <<dispatched, gens, refines, tests, history>>
       /\ (generatedPrompt = StoredPrompt /\ generatedPrompt' # generatedPrompt)
            => \/ GenStarts
               \/ \E r \in refines : OwnRefineSucceeds(r)
               \/ \E item \in Offered : SelectHistory(item)
      ]_vars

----------------------------------------------------------------------------
(* C17 *)

\* A step of a test turn: its dispatch, a fragment, the end of its stream or
\* its failure.
TestTurnStep ==
    \/ TestStarts
    \/ \E t \in tests :
          \/ \E chunkText \in TestFragments : TestChunk(t, chunkText)
          \/ TestEnd(t)
          \/ \E err \in Thrown : TestFail(t, err)

\* C17: a test turn, succeeding or failing, changes only the test thread,
\* the test handle and the test loading flag: the generated prompt, the
\* refine anchor, the refine thread and the history stay as they are, and
\* App, which holds them, stays mounted.
C17_TestTurnFrame ==
    [][TestTurnStep =>
          /\ UNCHANGED <<generatedPrompt, originalPromptForChat, chatHistory, history>>
          /\ UNCHANGED <<formVars, isLoading, error, activeTab, isChatLoading>>
          /\ ~crashed'
      ]_vars

----------------------------------------------------------------------------
(* C18 *)

\* C18: clearTestThread empties the test thread and makes the handle absent,
\* and leaves the refine thread, the anchor, the generated prompt and the
\* history unchanged.
C18_ClearTestThreadFrame ==
    [][ClearTestChat =>
          /\ testChatHistory' = <<>>
          /\ testChatRef' = Null
          /\ UNCHANGED <<chatHistory, originalPromptForChat, generatedPrompt, history>>
      ]_vars

\* A test turn, bound to the prompt a refine turn produced, is in flight and
\* its thread is empty, while the refine thread still holds that refine
\* turn: the test thread was emptied by clearTestThread, not by a reset.
C18_Witness ==
    /\ testChatHistory = <<>>
    /\ testChatRef = Null
    /\ \E t \in tests : t.chat.systemInstruction = <<"r">>
    /\ Len(chatHistory) = 2
    /\ chatHistory[2].content = <<"r">>
    /\ generatedPrompt = <<"r">>
    /\ originalPromptForChat = <<"r">>

----------------------------------------------------------------------------
(* C20 *)

\* C20: with no backend client, generatePrompt sets the error and does not
\* enter the generating state: no step starts a generation or sets
\* isLoading, and the dispatch leaves the prompt, both threads, the test
\* handle and the history unchanged.
C20_NoClientFailsFast ==
    [][~ai =>
          /\ ~GenStarts
          /\ ~isLoading'
          /\ gens' = {}
          /\ \A card \in Cards :
                RecommendedClick(card) =>
                   /\ error' = ErrMsg(NOT_INITIALIZED)
                   /\ UNCHANGED <<generatedPrompt, chatHistory, testChatHistory,
                                  testChatRef, history>>
      ]_vars

\* Without a client, a card was clicked on a prompt restored from the
\* history: the error is set and the prompt is still there.
C20_Witness ==
    /\ ~ai
    /\ error = ErrMsg(NOT_INITIALIZED)
    /\ \E card \in Cards : userInput = CardInput(card)
    /\ generatedPrompt = StoredPrompt
    /\ ~isLoading

----------------------------------------------------------------------------
(* C15 *)

\* DD-MM-YYYY of the calendar dates in Dates: 5 March 2026, 15 December 2026.
CalendarText(date) ==
    IF date = Dates[1] THEN <<"0", "5", "-", "0", "3", "-", "2", "0", "2", "6">>
    ELSE <<"1", "5", "-", "1", "2", "-", "2", "0", "2", "6">>

\* The code matches the admin check, resp. the client check of the moment.
IsAdminCode == code = <<"admin-unlock-righteye">>

IsClientCode == code = adminSettings.accessSecret \o <<"-">> \o CalendarText(today)

\* C15: a code submitted at level none sets the level to admin when it is
\* the fixed admin code, to client when it is the saved secret followed by
\* -DD-MM-YYYY of the current local date, and otherwise leaves the level at
\* none and sets the error.
C15_AccessCodeSubmission ==
    [][AccessGateSubmit =>
          IF IsAdminCode THEN accessLevel' = "admin"
          ELSE IF IsClientCode THEN accessLevel' = "client"
          ELSE accessLevel' = "none" /\ gateError' = "Invalid access code."
      ]_vars

\* The administrator changed the secret, months passed, and a visitor got in
\* with the new secret and the date of the day (the gate is enabled, so no
\* guest button was offered).
C15_Witness ==
    /\ accessLevel = "client"
    /\ adminSettings = [accessSecret |-> <<"NEW">>, isGateEnabled |-> TRUE]
    /\ today = Dates[2]
    /\ code = <<"NEW", "-", "1", "5", "-", "1", "2", "-", "2", "0", "2", "6">>

----------------------------------------------------------------------------
(* C16 *)

\* The step is a code submission that matches one of the two checks, resp.
\* a logout.
MatchingSubmit == AccessGateSubmit /\ (IsAdminCode \/ IsClientCode)

\* C16: the access level leaves none only through a submitted code that
\* matches one of the two credential checks and returns to none only
\* through logout; no other step changes it.
C16_LevelChangesOnlyByCodeOrLogout ==
    [][accessLevel' # accessLevel =>
          \/ accessLevel = "none" /\ MatchingSubmit
          \/ accessLevel' = "none" /\ Logout
      ]_vars

\* C16 as amended: the access level leaves none only through a submitted
\* code that matches one of the two credential checks, or through Continue
\* as Guest, offered only while the saved settings have the gate disabled
\* and leading to client; it returns to none only through logout; no other
\* step changes it.
C16_LevelChangesOnlyByCodeGuestOrLogout ==
    [][accessLevel' # accessLevel =>
          \/ accessLevel = "none" /\ MatchingSubmit
          \/ /\ accessLevel = "none"
             /\ ContinueAsGuest
             /\ ~adminSettings.isGateEnabled
             /\ accessLevel' = "client"
          \/ accessLevel' = "none" /\ Logout
      ]_vars

\* A guest is in: level client with the gate disabled and nothing typed
\* into the code field since AccessGate was mounted.
C16_Witness ==
    /\ accessLevel = "client"
    /\ ~adminSettings.isGateEnabled
    /\ code = <<>>

----------------------------------------------------------------------------
(* C19 *)

\* The role label the document gives a message.
RoleLabel(role) == IF role = "user" THEN "User:" ELSE "Assistant:"

\* C19: the exported document embeds the prompt context in effect for the
\* exported thread: for the test thread the prompt its conversation handle
\* was bound to, for the refine thread the current refine anchor; and it
\* lists all messages of that thread in order with their role labels.
C19_ExportEmbedsThreadContext ==
    [][SaveToFile =>
          LET thread == IF chatToSave = "refine" THEN chatHistory ELSE testChatHistory
              doc == download'.content
          IN /\ chatToSave = "refine" => doc.systemPromptUsed = originalPromptForChat
             /\ (chatToSave = "test" /\ testChatRef # Null)
                    => doc.systemPromptUsed = testChatRef.systemInstruction
             /\ Len(doc.conversation) = Len(thread)
             /\ \A i \in DOMAIN thread :
                    /\ doc.conversation[i].prefix = RoleLabel(thread[i].role)
                    /\ doc.conversation[i].content = thread[i].content
      ]_vars

----------------------------------------------------------------------------
(* C22 *)

\* The identities of the entries of a history.
IdsOf(items) == {items[i].id : i \in DOMAIN items}

\* The identities of the entries found in storage at the start.  Such an
\* entry is never created again (new entries take the time of their
\* creation as identity), so when it is absent from the history it has been
\* removed, by handleClearHistoryItem or by a confirmed handleClearAllHistory.
StoredIds == 1..StoredItems

\* C22: an entry removed by deleteHistoryItem or by a confirmed
\* clearAllHistory never appears in the history again, also when a
\* generation that was in flight at the time of the removal completes
\* afterwards.
C22_RemovedEntriesStayRemoved ==
    [][\A id \in StoredIds : id \notin IdsOf(history) => id \notin IdsOf(history')]_vars

----------------------------------------------------------------------------
(* C23 *)

\* The step belongs to a refine or a test turn: one of the two threads, their
\* loading flags or their sets of turns in flight changes, and no generation
\* is dispatched or running.
TurnStep ==
    /\ gens = {} /\ ~isLoading /\ ~GenStarts
    /\ <<refineVars, testVars, refines, tests>>' # <<refineVars, testVars, refines, tests>>

\* C23: once a non-empty prompt exists, no step of a refine or test turn
\* makes it empty; a refine turn whose stream completes without a non-empty
\* fragment leaves the prompt and the refine anchor non-empty.
C23_TurnsNeverEmptyPrompt ==
    [][(TurnStep /\ Truthy(generatedPrompt) /\ Truthy(originalPromptForChat))
          => (Truthy(generatedPrompt') /\ Truthy(originalPromptForChat'))
      ]_vars

----------------------------------------------------------------------------
(* C21 *)

\* What load has to return for an item: the default when the key is missing
\* or the item does not decode, the decoded value otherwise.
Loaded(item, default) == IF "json" \in DOMAIN item THEN item.json ELSE default

\* The step is a save on the history, the access level, the admin settings.
SavesHistory ==
    \/ \E g \in gens : GenEnd(g)
    \/ \E item \in Offered : ClearHistoryItem(item.id)
    \/ ClearAllHistory(TRUE)

SavesAccessLevel == MatchingSubmit \/ ContinueAsGuest \/ Logout

SavesAdminSettings == \E secret \in Secrets : \E isEnabled \in BOOLEAN : AdminSave(secret, isEnabled)

\* A save on key with the in-memory value memory after it: the other keys
\* keep their items; a refused write leaves the item of key as it was and a
\* successful one makes it the text of the in-memory value.
SaveIsCorrect(key, memory) ==
    /\ \A other \in KEYS \ {key} : localStorage'[other] = localStorage[other]
    /\ IF quotaExceeded THEN localStorage'[key] = localStorage[key]
       ELSE localStorage'[key] = [json |-> memory]

====
